---- MODULE Spec2Model ----
(***************************************************************************)
(* A model of libwapiti's API facade (src/src/api.c): the tagging          *)
(* pipeline (api_str2raw, api_label_seq), the pattern loader               *)
(* (api_load_patterns), model construction (api_new_model), the training   *)
(* dispatcher (api_train, trn_auto) and the log redirection wrappers       *)
(* (__wrap_fatal, __wrap_pfatal, __wrap_warning, __wrap_info).             *)
(*                                                                         *)
(* C strings are sequences of one-character strings.  Every API function   *)
(* is one action that models the whole call.                               *)
(***************************************************************************)
EXTENDS Integers, Sequences, FiniteSets, TLC

VARIABLES
  api_logs,   \* the severity -> handler table (api.c:301)
  running,    \* FALSE once a handler has called exit() or the process died
  tag,        \* observation of the last api_label_seq call
  opt,        \* the host's opt_t: type, algo, maxiter, nbest
  mdl,        \* the model: reader counters, pattern list, type tag, corpus
  pl,         \* observation of the pattern-loading calls
  trn,        \* observation of the last api_train call
  lg          \* observation of the last log emission

vars == <<api_logs, running, tag, opt, mdl, pl, trn, lg>>

-----------------------------------------------------------------------------
(* Characters and strings *)

NL  == "\n"
TAB == "\t"
NUL == ""          \* the terminating '\0'
UNINIT == "?"      \* a byte of a fresh allocation that was never written

Rep(c, n) == [i \in 1..n |-> c]

\* strlen of the C string stored in a sequence of characters without NUL
strlen(s) == Len(s)

-----------------------------------------------------------------------------
(* Bounds of the model *)

MaxText  == 4     \* longest input text that is enumerated exhaustively
MaxNbest == 2     \* largest configured best-N count
MaxPatLines == 2  \* most lines in one pattern text
MaxPats  == 3     \* api_load_patterns is not called on a fuller pattern list
MaxToks  == 1     \* largest token span pat_comp reports
MaxIter  == 4     \* largest configured max_iterations

\* Initial number of line slots in a raw_t (api.c:38)
RawInitSize == 32


-----------------------------------------------------------------------------
(* LogSinkTable: severities and the default handlers (api.c:278-306) *)

Severities == {"FATAL", "PFATAL", "WARNING", "INFO"}
Handlers   == {"err_log", "wrn_log", "inf_log"}

\* err_log calls exit(EXIT_FAILURE); wrn_log and inf_log return to the caller
HandlerReturns(h) == h # "err_log"

DefaultLogs ==
  [s \in Severities |->
     CASE s = "FATAL"   -> "err_log"
       [] s = "PFATAL"  -> "err_log"
       [] s = "WARNING" -> "wrn_log"
       [] OTHER         -> "inf_log"]

-----------------------------------------------------------------------------
(* LineBuffer: strtok(seq, "\n") and api_str2raw *)

RECURSIVE SkipDelim(_, _)
SkipDelim(s, i) == IF i <= Len(s) /\ s[i] = NL THEN SkipDelim(s, i + 1) ELSE i

RECURSIVE ScanToken(_, _)
ScanToken(s, i) == IF i <= Len(s) /\ s[i] # NL THEN ScanToken(s, i + 1) ELSE i

\* One strtok call continuing at index i: skip leading delimiters, return the
\* token up to the next delimiter (or end), remember where to continue.
strtok(s, i) ==
  LET b == SkipDelim(s, i)
      e == ScanToken(s, b)
  IN IF b > Len(s)
       THEN [found |-> FALSE, line |-> <<>>, next |-> b]
       ELSE [found |-> TRUE, line |-> SubSeq(s, b, e - 1), next |-> e + 1]

\* size *= 1.4 on an int: the product is truncated toward zero
raw_grow(size) == (size * 14) \div 10

\* The loop of api.c:44-51.  raw.next is strtok's saved position.
RECURSIVE str2raw_loop(_, _)
str2raw_loop(seq, raw) ==
  LET t == strtok(seq, raw.next) IN
  IF ~t.found THEN raw
  ELSE LET cnt  == Len(raw.lines)
           size == IF cnt = raw.size THEN raw_grow(raw.size) ELSE raw.size
       IN str2raw_loop(seq,
            [lines |-> Append(raw.lines, t.line),   \* strdup(line)
             size  |-> size,
             oob   |-> raw.oob \/ cnt >= size,
             next  |-> t.next])

api_str2raw(seq) ==
  LET raw == str2raw_loop(seq,
               [lines |-> <<>>, size |-> RawInitSize, oob |-> FALSE,
                next |-> 1])
  IN [lines |-> raw.lines, len |-> Len(raw.lines),
      size |-> raw.size, oob |-> raw.oob]

-----------------------------------------------------------------------------
(* TaggingPipeline: api_label_seq *)

\* The label symbol table of the model (mdl->reader->lbl), ids 1..2
LabelStr == << <<"O">>, <<"B", "-", "P", "E", "R">> >>
LabelIds == 1..Len(LabelStr)

qrk_id2str(id) == LabelStr[id]

\* seq->len of the sequence rdr_raw2seq builds from raw: one position per line
rdr_raw2seq_len(raw) == raw.len

\* The label ids tag_viterbi may write to out[0..T-1].  All assignments for a
\* short sequence; the constant and the alternating ones for a long one.
tag_viterbi(T) ==
  IF T <= MaxText THEN [1..T -> LabelIds]
  ELSE {[t \in 1..T |-> l] : l \in LabelIds}
       \cup {[t \in 1..T |-> 1 + (t % 2)]}

\* A row size that forgets the label
rowsize_nolabel(line, lblstr) == strlen(line) + 3

\* Size: input line + \t + label + \n + \0
rowsize(line, lblstr) == strlen(line) + strlen(lblstr) + 3

\* outsize += rowsize*(T-t), t counted from 0
grow_outsize(outsize, rsz, T, t) == outsize + rsz * (T - t)

\* realloc keeps the old bytes; malloc and the new tail are uninitialized
xrealloc(buf, size) ==
  IF size <= Len(buf) THEN SubSeq(buf, 1, size)
  ELSE buf \o Rep(UNINIT, size - Len(buf))

\* Store the bytes w at C index pos; bytes that fall outside the allocation
\* are not part of it.
Poke(buf, pos, w) ==
  LET k == IF pos + Len(w) <= Len(buf) THEN Len(w) ELSE Len(buf) - pos
  IN IF pos >= Len(buf) THEN buf
     ELSE SubSeq(buf, 1, pos) \o SubSeq(w, 1, k)
            \o SubSeq(buf, pos + k + 1, Len(buf))

\* snprintf(buf+pos, size, ...) of the formatted string str: at most size-1
\* characters and a NUL are stored, nothing when size is 0; the return value
\* is the untruncated length.  A negative size stands for the wrapped-around
\* size_t of outsize-pos with pos > outsize, which bounds nothing.
snprintf(buf, pos, size, str) ==
  LET n == IF size < 0 \/ Len(str) < size THEN Len(str) ELSE size - 1
      w == IF size = 0 THEN <<>> ELSE SubSeq(str, 1, n) \o <<NUL>>
  IN [buf |-> Poke(buf, pos, w),
      oob |-> pos + Len(w) > Len(buf),
      ret |-> Len(str)]

format_row(line, lblstr) == line \o <<TAB>> \o lblstr \o <<NL>>

\* The loop of api.c:162-171; st.t is the source's t + 1.
RECURSIVE label_loop(_, _, _, _)
label_loop(raw, out, T, st) ==
  IF st.t > T THEN st
  ELSE
    LET t       == st.t
        lblstr  == qrk_id2str(out[t])
        rsz     == rowsize(raw.lines[t], lblstr)
        outsize == IF st.pos + rsz > st.outsize
                     THEN grow_outsize(st.outsize, rsz, T, t - 1)
                     ELSE st.outsize
        lblseq  == xrealloc(st.buf, outsize)
        w       == snprintf(lblseq, st.pos, outsize - st.pos,
                            format_row(raw.lines[t], lblstr))
    IN label_loop(raw, out, T,
         [t       |-> t + 1,
          buf     |-> w.buf,
          outsize |-> outsize,
          pos     |-> st.pos + w.ret,
          oob     |-> st.oob \/ w.oob,
          rows    |-> Append(st.rows,
                        [pos |-> st.pos, rowsize |-> rsz, outsize |-> outsize])])

\* The C string that starts at index 0 of mem: the bytes before the first NUL
CStr(mem) ==
  LET nuls == {i \in 1..Len(mem) : mem[i] = NUL}
  IN IF nuls = {} THEN mem
     ELSE SubSeq(mem, 1, (CHOOSE i \in nuls : \A j \in nuls : i <= j) - 1)

\* lblseq[pos] = '\0' and the string the caller then reads at lblseq.  A
\* terminator stored at or past outsize lies outside the allocation; the bytes
\* between the allocation and it were never written.
terminate(st) ==
  LET mem == IF st.pos < st.outsize
               THEN Poke(st.buf, st.pos, <<NUL>>)
               ELSE st.buf \o Rep(UNINIT, st.pos - st.outsize) \o <<NUL>>
  IN [result |-> CStr(mem),
      term   |-> [pos |-> st.pos, outsize |-> st.outsize],
      oob    |-> st.oob \/ st.pos >= st.outsize]

NoTag ==
  [called |-> FALSE, lines |-> <<>>, out |-> <<>>, T |-> 0,
   request |-> "none", rows |-> <<>>, term |-> [pos |-> 0, outsize |-> 0],
   rawsize |-> RawInitSize, oob |-> FALSE, status |-> "none", result |-> <<>>]

\* api_label_seq(mdl, lines): the whole call.  A write outside the output
\* buffer is undefined behaviour: the call may return or the process may die.
\* Calls share no state, so a behaviour holds one.
api_label_seq(lines) ==
  /\ running
  /\ mdl.made
  /\ ~tag.called
  /\ LET raw == api_str2raw(lines)
         T   == rdr_raw2seq_len(raw)
     IN \E out \in tag_viterbi(T) :
          LET st0 == [t       |-> 1,
                      buf     |-> xrealloc(<<>>, strlen(lines) + 5 * T),
                      outsize |-> strlen(lines) + 5 * T,
                      pos     |-> 0,
                      oob     |-> raw.oob,
                      rows    |-> <<>>]
              st  == label_loop(raw, out, T, st0)
              fin == terminate(st)
          IN \E status \in (IF fin.oob THEN {"returned", "crashed"}
                                       ELSE {"returned"}) :
               /\ tag' = [called |-> TRUE, lines |-> lines, out |-> out,
                          T |-> T, request |-> "tag_viterbi",
                          rows |-> st.rows,
                          term |-> fin.term, rawsize |-> raw.size,
                          oob |-> fin.oob, status |-> status,
                          result |-> fin.result]
               /\ running' = (status = "returned")
  /\ UNCHANGED <<api_logs, opt, mdl, pl, trn, lg>>

-----------------------------------------------------------------------------
(* Inputs of the tagging pipeline *)

TextAlphabet == {"a", "b", NL}
ShortTexts == UNION {[1..k -> TextAlphabet] : k \in 0..MaxText}
\* Texts with as many lines as a raw_t holds at first, one more, and one more
\* than it holds after its first growth
LongLineCounts == {RawInitSize, RawInitSize + 1, raw_grow(RawInitSize) + 1}
LongTexts ==
  {[i \in 1..(2 * k) |-> IF i % 2 = 1 THEN "a" ELSE NL] : k \in LongLineCounts}
Texts == ShortTexts \cup LongTexts


-----------------------------------------------------------------------------
(* Configuration (opt_t): the fields the API reads *)

TypeNames == {"maxent", "memm", "crf"}
AlgoNames == {"l-bfgs", "sgd-l1", "bcd", "rprop", "rprop+", "rprop-", "auto"}

DefaultOpt == [type |-> "crf", algo |-> "l-bfgs", maxiter |-> 0, nbest |-> 1]

\* mdl_new(rdr_new(maxent)): an empty reader, no corpus; the type tag (-1
\* here) is not set until api_new_model assigns it
NoModel ==
  [made |-> FALSE, type |-> -1,
   npats |-> 0, nuni |-> 0, nbi |-> 0, ntoks |-> 0, pats |-> <<>>,
   train |-> [alloc |-> FALSE, nseq |-> 0, mlen |-> 0]]

NoLoad == [op |-> "none", typefatal |-> FALSE, fatals |-> 0, both |-> 0,
           unk |-> <<>>]
NoTrain ==
  [called |-> FALSE, algo |-> "none", maxiter0 |-> 0, fatals |-> 0,
   indexed |-> -1, events |-> <<>>, returned |-> FALSE]
NoLog ==
  [sev |-> "none", obtained |-> FALSE, alloc |-> 0, formatted |-> <<>>,
   err |-> <<>>, msg |-> <<>>, handler |-> "none", freed |-> "none",
   oob |-> FALSE]

-----------------------------------------------------------------------------
(* LogRedirector as the API functions see it: fatal() reaches the handler in
   api_logs[FATAL], which returns to the caller or ends the process *)

fatal_returns(logs) == HandlerReturns(logs["FATAL"])

\* The host replaces one entry of the table
api_set_log(sev, h) ==
  /\ running
  /\ api_logs[sev] # h
  /\ api_logs' = [api_logs EXCEPT ![sev] = h]
  /\ UNCHANGED <<running, tag, opt, mdl, pl, trn, lg>>

-----------------------------------------------------------------------------
(* PatternLoader: api_load_patterns *)

\* isspace and tolower on the characters pattern texts are made of here
isspace(c) == c \in {" ", TAB, NL}
tolower(c) == CASE c = "U" -> "u" [] c = "B" -> "b" [] OTHER -> c

\* strcspn(line, "#"): the number of characters before the first '#'
strcspn(line) ==
  LET hs == {i \in 1..Len(line) : line[i] = "#"}
  IN IF hs = {} THEN Len(line)
     ELSE (CHOOSE i \in hs : \A j \in hs : i <= j) - 1

\* while (end != 0 && isspace(line[end - 1])) end--;
RECURSIVE strip_end(_, _)
strip_end(line, end) ==
  IF end # 0 /\ isspace(line[end]) THEN strip_end(line, end - 1) ELSE end

\* pat_comp(patstr): the compiled pattern keeps the string; its token span is
\* the compiler's business
pat_comp(patstr, ntoks) == [src |-> patstr, ntoks |-> ntoks]

max(a, b) == IF a < b THEN b ELSE a

Counters(st) ==
  [npats |-> st.npats, nuni |-> st.nuni, nbi |-> st.nbi, ntoks |-> st.ntoks,
   listed |-> Len(st.pats)]

\* The loader's working state on a reader with the given counters
LoadState(m) ==
  [next |-> 1, k |-> 0, exited |-> FALSE, fatals |-> 0, both |-> 0,
   unk |-> <<>>,
   npats |-> m.npats, nuni |-> m.nuni, nbi |-> m.nbi, ntoks |-> m.ntoks,
   pats |-> m.pats]

\* The counter updates of the switch on line[0] (api.c:206-213)
count_nuni(nuni, sel) == IF sel \in {"u", "*"} THEN nuni + 1 ELSE nuni
count_nbi(nbi, sel)   == IF sel \in {"b", "*"} THEN nbi + 1 ELSE nbi
known_type(sel)       == sel \in {"u", "b", "*"}

\* One compiled line (api.c:197-216).  st.k counts the lines compiled by this
\* call; toks[k] is the span pat_comp reports for the k-th of them.
load_line(raw, end, toks, logs, st) ==
  LET line   == <<tolower(raw[1])>> \o SubSeq(raw, 2, end)
      pat    == pat_comp(line, toks[st.k + 1])
      sel    == line[1]
      npats  == st.npats + 1
      nuni   == count_nuni(st.nuni, sel)
      nbi    == count_nbi(st.nbi, sel)
      isfatal == ~known_type(sel)
      dies   == isfatal /\ ~fatal_returns(logs)
      pats   == IF dies THEN st.pats
                ELSE [xrealloc(st.pats, npats) EXCEPT ![npats] = pat]
      ntoks  == IF dies THEN st.ntoks ELSE max(st.ntoks, pat.ntoks)
      after  == [npats |-> npats, nuni |-> nuni, nbi |-> nbi, ntoks |-> ntoks,
                 listed |-> Len(pats)]
  IN [st EXCEPT !.k = st.k + 1,
                !.npats = npats, !.nuni = nuni, !.nbi = nbi,
                !.pats = pats, !.ntoks = ntoks,
                !.exited = dies,
                !.fatals = IF isfatal THEN st.fatals + 1 ELSE st.fatals,
                !.both = IF sel = "*" THEN st.both + 1 ELSE st.both,
                !.unk = IF isfatal
                          THEN Append(st.unk, [sel |-> sel,
                                 before |-> Counters(st), after |-> after])
                          ELSE st.unk]

\* The loop of api.c:188-217; st.next is strtok's saved position
RECURSIVE load_loop(_, _, _, _)
load_loop(lines, toks, logs, st) ==
  LET tk == strtok(lines, st.next) IN
  IF st.exited \/ ~tk.found THEN st
  ELSE LET end == strip_end(tk.line, strcspn(tk.line))
           st1 == [st EXCEPT !.next = tk.next]
       IN IF end = 0 THEN load_loop(lines, toks, logs, st1)
          ELSE load_loop(lines, toks, logs,
                         load_line(tk.line, end, toks, logs, st1))

\* api_load_patterns(mdl, lines): the whole call
api_load_patterns(lines, toks) ==
  /\ running
  /\ mdl.made
  /\ mdl.npats + MaxPatLines <= MaxPats
  /\ LET ld == load_loop(lines, toks, api_logs, LoadState(mdl))
     IN /\ mdl' = [mdl EXCEPT !.npats = ld.npats, !.nuni = ld.nuni,
                              !.nbi = ld.nbi, !.ntoks = ld.ntoks,
                              !.pats = ld.pats]
        /\ pl' = [op |-> "load", typefatal |-> FALSE, fatals |-> ld.fatals,
                  both |-> pl.both + ld.both, unk |-> ld.unk]
        /\ running' = ~ld.exited
  /\ UNCHANGED <<api_logs, tag, opt, trn, lg>>

-----------------------------------------------------------------------------
(* ModelFacade: api_new_model *)

typ_lst == <<"maxent", "memm", "crf">>
typ_cnt == Len(typ_lst)

\* for (typ = 0; typ < typ_cnt; typ++) if (!strcmp(type, typ_lst[typ])) break;
RECURSIVE typ_find(_, _)
typ_find(name, typ) ==
  IF typ < typ_cnt /\ name # typ_lst[typ + 1] THEN typ_find(name, typ + 1)
  ELSE typ

\* api_new_model(options, patterns): the whole call.  haspat is FALSE for a
\* NULL patterns argument.  A model the call does not return is not made.
api_new_model(haspat, patterns, toks) ==
  /\ running
  /\ ~mdl.made
  /\ LET typ   == typ_find(opt.type, 0)
         bad   == typ = typ_cnt
         goes  == ~bad \/ fatal_returns(api_logs)
         ld    == IF goes /\ haspat
                    THEN load_loop(patterns, toks, api_logs, LoadState(NoModel))
                    ELSE LoadState(NoModel)
         done  == goes /\ ~ld.exited
     IN /\ mdl' = [made  |-> done,
                   type  |-> IF goes THEN typ ELSE NoModel.type,
                   npats |-> ld.npats, nuni |-> ld.nuni, nbi |-> ld.nbi,
                   ntoks |-> ld.ntoks, pats |-> ld.pats,
                   train |-> [alloc |-> done, nseq |-> 0, mlen |-> 0]]
        /\ pl' = [op |-> "new", typefatal |-> bad,
                  fatals |-> (IF bad THEN 1 ELSE 0) + ld.fatals,
                  both |-> ld.both, unk |-> ld.unk]
        /\ running' = done
  /\ UNCHANGED <<api_logs, tag, opt, trn, lg>>

-----------------------------------------------------------------------------
(* Inputs of the pattern loader *)

PatLines ==
  { <<"u">>, <<"B", "0">>, <<"*">>, <<"x">>,
    <<"#", "u">>, <<"u", " ", "#", "c">>, <<" ", " ">>, <<" ", "u">> }

RECURSIVE JoinLines(_)
JoinLines(ls) ==
  IF ls = <<>> THEN <<>>
  ELSE IF Len(ls) = 1 THEN ls[1]
  ELSE ls[1] \o <<NL>> \o JoinLines(Tail(ls))

PatTexts == {JoinLines(ls) : ls \in UNION {[1..k -> PatLines] : k \in 0..MaxPatLines}}
TokSpans == [1..MaxPatLines -> 0..MaxToks]

-----------------------------------------------------------------------------
(* TrainingDispatcher: trn_lst, trn_auto, api_train *)

trn_lst ==
  << [name |-> "l-bfgs", train |-> "trn_lbfgs"],
     [name |-> "sgd-l1", train |-> "trn_sgdl1"],
     [name |-> "bcd",    train |-> "trn_bcd"],
     [name |-> "rprop",  train |-> "trn_rprop"],
     [name |-> "rprop+", train |-> "trn_rprop"],
     [name |-> "rprop-", train |-> "trn_rprop"],
     [name |-> "auto",   train |-> "trn_auto"] >>
trn_cnt == Len(trn_lst)

Trainers == {"trn_lbfgs", "trn_sgdl1", "trn_bcd", "trn_rprop"}

\* A routine of the engine runs on the model: it reads the iteration budget
\* that the configuration holds at that moment.
call_engine(fn, st) ==
  [st EXCEPT !.events = Append(@, [fn |-> fn, maxiter |-> st.opt.maxiter])]

\* trn_auto with the budget restored only after the second phase
trn_auto_late_restore(st) ==
  LET maxiter == st.opt.maxiter
      s1 == call_engine("trn_sgdl1", [st EXCEPT !.opt.maxiter = 3])
      s2 == call_engine("trn_lbfgs", s1)
  IN [s2 EXCEPT !.opt.maxiter = maxiter]

\* trn_auto (api.c:61-67)
trn_auto(st) ==
  LET maxiter == st.opt.maxiter
      s1 == call_engine("trn_sgdl1", [st EXCEPT !.opt.maxiter = 3])
      s2 == [s1 EXCEPT !.opt.maxiter = maxiter]
  IN call_engine("trn_lbfgs", s2)

call_train(fn, st) ==
  IF fn = "trn_auto" THEN trn_auto(st) ELSE call_engine(fn, st)

\* for (trn = 0; trn < trn_cnt; trn++) if (!strcmp(algo, trn_lst[trn].name)) break;
RECURSIVE trn_find(_, _)
trn_find(name, i) ==
  IF i < trn_cnt /\ name # trn_lst[i + 1].name THEN trn_find(name, i + 1)
  ELSE i

\* What trn_lst[i].train(mdl) may do.  For i < trn_cnt it calls the entry.
\* trn_lst[trn_cnt] is a read past the end of the table: the pointer found
\* there is garbage, and calling it kills the process or runs some code.
dispatch_targets(i) ==
  IF i < trn_cnt THEN {trn_lst[i + 1].train}
  ELSE {"crash", "garbage"} \cup Trainers

\* api_train(mdl): the whole call
api_train ==
  /\ running
  /\ mdl.made
  /\ LET i    == trn_find(opt.algo, 0)
         bad  == i = trn_cnt
         goes == ~bad \/ fatal_returns(api_logs)
     IN \E target \in (IF goes THEN dispatch_targets(i) ELSE {"none"}) :
          LET st0 == [opt |-> opt, events |-> <<>>]
              st1 == IF goes
                       THEN call_engine("uit_setup", call_engine("mdl_sync", st0))
                       ELSE st0
              st2 == IF goes /\ target # "crash" THEN call_train(target, st1)
                     ELSE st1
              ret == goes /\ target # "crash"
              st3 == IF ret THEN call_engine("uit_cleanup", st2) ELSE st2
          IN /\ opt' = st3.opt
             /\ trn' = [called |-> TRUE, algo |-> opt.algo,
                        maxiter0 |-> opt.maxiter,
                        fatals |-> IF bad THEN 1 ELSE 0,
                        indexed |-> IF goes THEN i ELSE -1,
                        events |-> st3.events, returned |-> ret]
             /\ running' = ret
  /\ UNCHANGED <<api_logs, tag, mdl, pl, lg>>

-----------------------------------------------------------------------------
(* LogRedirector: the four wrappers *)

MAXLOGMSG == 1400
OOMMSG == <<"o", "u", "t", " ", "o", "f", " ", "m", "e", "m", "o", "r", "y", NL>>

\* malloc(size): size uninitialized bytes
malloc(size) == xrealloc(<<>>, size)

\* What the handler in api_logs[sev] is given, and whether control comes back.
\* message is the rendered buffer, or nothing when malloc returned NULL.
dispatch(sev, obtained, alloc, formatted, err, message, oob, release) ==
  LET h    == api_logs[sev]
      back == HandlerReturns(h)
      freed == IF ~(release /\ back) THEN "none"
               ELSE IF obtained THEN "message" ELSE "OOMMSG"
  IN \E alive \in (IF ~back THEN {FALSE}
                   ELSE IF freed = "OOMMSG" THEN {TRUE, FALSE}  \* free() of a literal
                   ELSE {TRUE}) :
       /\ lg' = [sev |-> sev, obtained |-> obtained, alloc |-> alloc,
                 formatted |-> formatted, err |-> err,
                 msg |-> IF obtained THEN message ELSE OOMMSG,
                 handler |-> h, freed |-> freed, oob |-> oob]
       /\ running' = alive
       /\ UNCHANGED <<api_logs, tag, opt, mdl, pl, trn>>

\* message = malloc(MAXLOGMSG); vsnprintf(message, MAXLOGMSG, msg, args)
render(formatted) == snprintf(malloc(MAXLOGMSG), 0, MAXLOGMSG, formatted)

\* __wrap_fatal: formatted is what the format and its arguments expand to
wrap_fatal(formatted, ok) ==
  /\ running
  /\ LET w == render(formatted)
     IN dispatch("FATAL", ok, MAXLOGMSG, formatted, <<>>, CStr(w.buf), ok /\ w.oob,
                 FALSE)

\* The bound of the second snprintf of __wrap_pfatal
pfatal_room(msglen) == MAXLOGMSG - msglen

\* __wrap_pfatal: err is strerror(errno)
wrap_pfatal(formatted, err, ok) ==
  /\ running
  /\ LET alloc  == MAXLOGMSG + strlen(err) + 4
         w1     == snprintf(malloc(alloc), 0, MAXLOGMSG, formatted)
         msglen == strlen(CStr(w1.buf))
         w2     == snprintf(w1.buf, msglen, pfatal_room(msglen),
                            <<" ", "<">> \o err \o <<">">>)
     IN dispatch("PFATAL", ok, alloc, formatted, err, CStr(w2.buf),
                 ok /\ (w1.oob \/ w2.oob), FALSE)

\* __wrap_warning
wrap_warning(formatted, ok) ==
  /\ running
  /\ LET w == render(formatted)
     IN dispatch("WARNING", ok, MAXLOGMSG, formatted, <<>>, CStr(w.buf),
                 ok /\ w.oob, TRUE)

\* __wrap_info
wrap_info(formatted, ok) ==
  /\ running
  /\ LET w == render(formatted)
     IN dispatch("INFO", ok, MAXLOGMSG, formatted, <<>>, CStr(w.buf),
                 ok /\ w.oob, TRUE)

-----------------------------------------------------------------------------
(* Inputs of the log facility *)

Success == <<"S", "u", "c", "c", "e", "s", "s">>
ErrStrs == {Success, Rep("e", 25) \o <<>>}
\* Lengths of the formatted message: empty, the longest after which
\* " <Success>" still fits in MAXLOGMSG, one more, the longest that is not
\* truncated, and one that is
FmtLens == {0, MAXLOGMSG - Len(Success) - 4, MAXLOGMSG - Len(Success) - 3,
            MAXLOGMSG - 1, MAXLOGMSG + 1}
Formatted == {Rep("m", n) \o <<>> : n \in FmtLens}

-----------------------------------------------------------------------------
(* The tagging pipeline as a system: the host labels texts with a model *)

InitLabel ==
  /\ api_logs = DefaultLogs
  /\ running = TRUE
  /\ tag = NoTag
  /\ opt \in {[DefaultOpt EXCEPT !.nbest = n] : n \in 1..MaxNbest}
  /\ mdl = NoModel
  /\ pl = NoLoad
  /\ trn = NoTrain
  /\ lg = NoLog

NextLabel ==
  \/ \E toks \in TokSpans : api_new_model(FALSE, <<>>, toks)
  \/ \E lines \in Texts : api_label_seq(lines)

SpecLabel == InitLabel /\ [][NextLabel]_vars


-----------------------------------------------------------------------------
(* Claims about the tagging pipeline *)

\* The non-empty lines of a text, read off the text itself: a line starts at
\* a non-newline character that is first or follows a newline, and runs to
\* the character before the next newline.
LineStarts(s) == {i \in 1..Len(s) : s[i] # NL /\ (i = 1 \/ s[i - 1] = NL)}
LineEndOf(s, i) ==
  CHOOSE j \in i..Len(s) :
    /\ \A k \in i..j : s[k] # NL
    /\ j = Len(s) \/ s[j + 1] = NL
InputLines(s) ==
  [n \in 1..Cardinality(LineStarts(s)) |->
     LET i == CHOOSE i \in LineStarts(s) :
                Cardinality({j \in LineStarts(s) : j < i}) = n - 1
     IN SubSeq(s, i, LineEndOf(s, i))]

NewlineCount(s) == Cardinality({i \in 1..Len(s) : s[i] = NL})

RECURSIVE SumLen(_, _, _)
SumLen(L, out, t) ==
  IF t > Len(L) THEN 0
  ELSE Len(L[t]) + Len(LabelStr[out[t]]) + 2 + SumLen(L, out, t + 1)

\* Line t of a text of newline-terminated lines (t from 1)
OutputLine(s, t) ==
  LET ends == {i \in 1..Len(s) : s[i] = NL}
      e == CHOOSE i \in ends : Cardinality({j \in ends : j < i}) = t - 1
      b == IF t = 1 THEN 1
           ELSE 1 + (CHOOSE i \in ends : Cardinality({j \in ends : j < i}) = t - 2)
  IN SubSeq(s, b, e - 1)

\* C1: with best_n = 1, for a text of T non-empty lines api_label_seq returns
\* a text of exactly T lines, line t being <input line t><TAB><label decoded
\* for position t>, in the original order, and the returned text is as long
\* as the sum over t of (length of line t + length of label t + 2).
C1_LabelSeqOutput ==
  (tag.called /\ tag.status = "returned" /\ opt.nbest = 1) =>
    LET L == InputLines(tag.lines)
        T == Len(L)
    IN /\ Len(tag.out) = T
       /\ NewlineCount(tag.result) = T
       /\ tag.result # <<>> => tag.result[Len(tag.result)] = NL
       /\ \A t \in 1..T :
            OutputLine(tag.result, t) = L[t] \o <<TAB>> \o LabelStr[tag.out[t]]
       /\ Len(tag.result) = SumLen(L, tag.out, 1)

\* A labelled text of more lines than a raw_t first holds, whose output
\* buffer had to grow
C1_Witness ==
  /\ tag.called /\ tag.status = "returned" /\ opt.nbest = 1
  /\ tag.T > RawInitSize
  /\ tag.rawsize > RawInitSize
  /\ tag.term.outsize > Len(tag.lines) + 5 * tag.T

\* C2: every write into the output buffer stays inside its capacity: before
\* each row is formatted pos + rowsize <= outsize, and the terminator is
\* written at an index pos < outsize.
C2_WritesInBounds ==
  tag.called =>
    /\ \A r \in 1..Len(tag.rows) :
         tag.rows[r].pos + tag.rows[r].rowsize <= tag.rows[r].outsize
    /\ tag.term.pos < tag.term.outsize

\* C8: with best-N count N > 1 api_label_seq requests the top-N sequences
\* and emits N*T lines; with N = 1 it requests the single best labelling and
\* emits T lines.
C8_NbestOutput ==
  (tag.called /\ tag.status = "returned") =>
    IF opt.nbest > 1
      THEN /\ tag.request = "tag_nbest"
           /\ NewlineCount(tag.result) = opt.nbest * Len(InputLines(tag.lines))
      ELSE /\ tag.request = "tag_viterbi"
           /\ NewlineCount(tag.result) = Len(InputLines(tag.lines))


-----------------------------------------------------------------------------
(* Model construction and pattern loading as a system *)

InitPat ==
  /\ api_logs = DefaultLogs
  /\ running = TRUE
  /\ tag = NoTag
  /\ opt \in {[DefaultOpt EXCEPT !.type = n] : n \in TypeNames \cup {"hmm"}}
  /\ mdl = NoModel
  /\ pl = NoLoad
  /\ trn = NoTrain
  /\ lg = NoLog

NextPat ==
  \/ \E h \in Handlers : api_set_log("FATAL", h)
  \/ \E toks \in TokSpans :
       \/ api_new_model(FALSE, <<>>, toks)
       \/ \E patterns \in PatTexts : api_new_model(TRUE, patterns, toks)
  \/ \E lines \in PatTexts, toks \in TokSpans : api_load_patterns(lines, toks)

SpecPat == InitPat /\ [][NextPat]_vars


-----------------------------------------------------------------------------
(* Claims about model construction and pattern loading *)

\* C3: whenever a pattern-loading call returns, on a model whose counters
\* started at zero, npats = nuni + nbi - both_count, both_count being the
\* number of lines classified as '*' summed over the calls.
C3_CountIdentity ==
  (running /\ mdl.made /\ pl.op \in {"new", "load"}) =>
    mdl.npats = mdl.nuni + mdl.nbi - pl.both

\* C5: an unknown model-type name signals the fatal condition and
\* construction does not proceed (no patterns loaded, no corpus allocated),
\* and the type tag of every model api_new_model produced is one of the
\* three enumerated values, whether the fatal handler terminates or returns.
C5_TypeValidated ==
  /\ (pl.op = "new" /\ opt.type \notin TypeNames) =>
       /\ pl.typefatal
       /\ mdl.npats = 0 /\ mdl.pats = <<>>
       /\ ~mdl.train.alloc
       /\ ~mdl.made
  /\ mdl.made => mdl.type \in 0..2

\* C6: a pattern line whose selector is none of u, b, * signals the fatal
\* condition and processing of that line stops: it appends no pattern and
\* leaves the total, unigram and bigram counts and the maximum token span as
\* they were before the line, whether the fatal handler terminates or returns.
C6_UnknownTypeLine ==
  /\ pl.unk # <<>> => pl.fatals >= Len(pl.unk)
  /\ \A n \in 1..Len(pl.unk) : pl.unk[n].after = pl.unk[n].before


-----------------------------------------------------------------------------
(* Training as a system *)

InitTrain ==
  /\ api_logs = DefaultLogs
  /\ running = TRUE
  /\ tag = NoTag
  /\ opt \in {[DefaultOpt EXCEPT !.algo = a, !.maxiter = m] :
                a \in AlgoNames \cup {"sgd"}, m \in 0..MaxIter}
  /\ mdl = NoModel
  /\ pl = NoLoad
  /\ trn = NoTrain
  /\ lg = NoLog

NextTrain ==
  \/ \E h \in Handlers : api_set_log("FATAL", h)
  \/ \E toks \in TokSpans : api_new_model(FALSE, <<>>, toks)
  \/ api_train

SpecTrain == InitTrain /\ [][NextTrain]_vars

\* The training routines a call ran, in order, with the budget each read
Phases(events) == SelectSeq(events, LAMBDA e : e.fn \in Trainers)

\* C7: for any configured max_iterations M, running "auto" executes exactly
\* two phases in this order, sgd-l1 while max_iterations reads 3 and then
\* l-bfgs while it reads M, and max_iterations is M again when the call
\* returns.
C7_AutoPhases ==
  (trn.called /\ trn.algo = "auto" /\ trn.returned) =>
    /\ Phases(trn.events) =
         << [fn |-> "trn_sgdl1", maxiter |-> 3],
            [fn |-> "trn_lbfgs", maxiter |-> trn.maxiter0] >>
    /\ opt.maxiter = trn.maxiter0

C7_Witness ==
  /\ trn.called /\ trn.algo = "auto" /\ trn.returned
  /\ trn.maxiter0 > 3
  /\ Len(trn.events) = 5

\* C4: an algorithm name that matches no registry entry signals the fatal
\* condition exactly once and no training occurs: no routine is invoked and
\* no slot outside the 7 registered entries is indexed, whether the fatal
\* handler terminates or returns.
C4_UnknownAlgorithm ==
  (trn.called /\ trn.algo \notin AlgoNames) =>
    /\ trn.fatals = 1
    /\ trn.events = <<>>
    /\ trn.indexed < trn_cnt

-----------------------------------------------------------------------------
(* The log facility as a system *)

InitLog ==
  /\ api_logs = DefaultLogs
  /\ running = TRUE
  /\ tag = NoTag
  /\ opt = DefaultOpt
  /\ mdl = NoModel
  /\ pl = NoLoad
  /\ trn = NoTrain
  /\ lg = NoLog

NextLog ==
  \/ \E sev \in Severities :
       \E h \in {DefaultLogs[sev], "err_log", "wrn_log"} : api_set_log(sev, h)
  \/ \E f \in Formatted, ok \in BOOLEAN : wrap_fatal(f, ok)
  \/ \E f \in Formatted, err \in ErrStrs, ok \in BOOLEAN : wrap_pfatal(f, err, ok)
  \/ \E f \in Formatted, ok \in BOOLEAN : wrap_warning(f, ok)
  \/ \E f \in Formatted, ok \in BOOLEAN : wrap_info(f, ok)

SpecLog == InitLog /\ [][NextLog]_vars

\* C9: for every fatal-with-system-error emission whose buffer was obtained,
\* the string dispatched is the rendered message followed by the complete
\* suffix " <" + OS error description + ">", and every byte written lies
\* inside the buffer allocated for it.
C9_PfatalSuffix ==
  (lg.sev = "PFATAL" /\ lg.obtained) =>
    LET n == IF Len(lg.formatted) < MAXLOGMSG THEN Len(lg.formatted)
             ELSE MAXLOGMSG - 1
    IN /\ lg.msg = SubSeq(lg.formatted, 1, n) \o <<" ", "<">> \o lg.err \o <<">">>
       /\ ~lg.oob

\* C10: the facility releases only a buffer it obtained for that emission:
\* warning and info release the obtained buffer once the handler has
\* returned, fatal and fatal-with-system-error release nothing, and when the
\* buffer could not be obtained the constant out-of-memory message goes to
\* the handler and is never released.
C10_ReleaseOwnBuffer ==
  /\ lg.freed # "OOMMSG"
  /\ (lg.sev \in {"WARNING", "INFO"} /\ lg.obtained /\ HandlerReturns(lg.handler))
       => lg.freed = "message"
  /\ lg.sev \in {"FATAL", "PFATAL"} => lg.freed = "none"
  /\ (lg.sev # "none" /\ ~lg.obtained) => lg.msg = OOMMSG

====
